---- MODULE Spec2Model ----
(***************************************************************************)
(* Model of stt_recognize.py: the configuration loader (load_env), the     *)
(* client builder (instantiate_stt), the keyword extractor                 *)
(* (extract_keywords), the artifact writer (save_json), the recognition    *)
(* call (sst_response) and the batch loop of main.                         *)
(*                                                                         *)
(* Text is modelled as sequences of one-character strings so that the path *)
(* derivation of save_json (os.path.splitext and the f-string) is computed *)
(* character by character.                                                 *)
(***************************************************************************)
EXTENDS Integers, Sequences, FiniteSets, TLC

VARIABLES
    pc,          \* position of the process
    osenv,       \* os.environ at process start (before load_dotenv)
    envfile,     \* the parsed environment file: key -> value or UNSET
    environ,     \* os.environ as the process sees it now
    keys,        \* the required-key sequence handed to load_env
    env,         \* the mapping load_env builds and returns
    status,      \* exit status of the process, -1 while it runs
    stdout,      \* lines printed so far
    client,      \* the handle instantiate_stt returns
    keywords,    \* the list extract_keywords returns
    sheet,       \* rows of the spreadsheet handed to extract_keywords
    header,      \* the header argument of extract_keywords
    entries,     \* os.listdir(audios_folder): sequence of [name, isfile]
    idx,         \* position of the for loop in entries
    inflight,    \* recognition requests submitted and not yet answered
    requests,    \* every recognition request submitted, in order
    data_json,   \* the result of the last recognition call
    json,        \* the output folder: artifact path -> content
    writes       \* every completed save_json write, in order

vars == <<pc, osenv, envfile, environ, keys, env, status, stdout, client,
          keywords, sheet, header, entries, idx, inflight, requests,
          data_json, json, writes>>

----------------------------------------------------------------------------
(* Bounds of the model *)

MaxKeys == 3        \* longest required-key sequence handed to load_env
MaxFiles == 3       \* entries of the input directory
MaxKeywords == 1    \* data rows of the spreadsheet in a run of main
MaxRows == 3        \* rows of the spreadsheet
MaxHeader == 2      \* largest header argument
MaxNameLen == 4     \* longest generated file name

----------------------------------------------------------------------------
(* Values *)

UNSET == "<unset>"                 \* os.getenv(key) is None / key not in file
NoClient == [api_key |-> UNSET, url |-> UNSET]
NoData == "<no data>"

\* stt_recognize.py:85, the key list main hands to load_env
MainKeys == <<"api_key", "api_url", "base_lang", "custom_id">>

EnvKeys == {"api_key", "api_url", "base_lang", "custom_id"}
TestKeys == {"api_key", "api_url"}
OsValues == {UNSET, "", "p"}
FileValues == {UNSET, "", "f"}

Range(s) == {s[i] : i \in DOMAIN s}

SeqsUpTo(S, n) == UNION {[1..m -> S] : m \in 0..n}

----------------------------------------------------------------------------
(* load_env, stt_recognize.py:14-31 *)

\* faulty variant: the file overrides what os.environ already holds
load_dotenv_override(os, file) ==
    [k \in EnvKeys |-> IF file[k] # UNSET THEN file[k] ELSE os[k]]

\* load_dotenv(dotenv_path), line 17: every key of the file that is not
\* already in os.environ is set from the file; a key already there (even with
\* an empty value) keeps its value.
load_dotenv(os, file) ==
    [k \in EnvKeys |-> IF os[k] # UNSET THEN os[k] ELSE file[k]]

EmptyLine(key) == [msg |-> "The value is empty", arg |-> <<key>>]
RepeatedLine(key) == [msg |-> "Repeated key", arg |-> <<key>>]
UnexpectedLine == [msg |-> "Unexpected error", arg |-> <<>>]
Halt(line) == [exit |-> TRUE, env |-> <<>>, out |-> <<line>>]

\* faulty variant: only a key that is not set at all counts as empty
RECURSIVE load_env_no_empty_check(_, _, _, _)
load_env_no_empty_check(getenv, ks, i, acc) ==
    IF i > Len(ks) THEN [exit |-> FALSE, env |-> acc, out |-> <<>>]
    ELSE LET key == ks[i] IN
         IF getenv[key] = UNSET THEN Halt(EmptyLine(key))
         ELSE IF key \in DOMAIN acc THEN Halt(RepeatedLine(key))
         ELSE load_env_no_empty_check(getenv, ks, i + 1,
                [k \in DOMAIN acc \cup {key} |->
                    IF k = key THEN getenv[key] ELSE acc[k]])

\* faulty variant: a repeated key overwrites its entry
RECURSIVE load_env_no_repeat_check(_, _, _, _)
load_env_no_repeat_check(getenv, ks, i, acc) ==
    IF i > Len(ks) THEN [exit |-> FALSE, env |-> acc, out |-> <<>>]
    ELSE LET key == ks[i] IN
         IF getenv[key] = UNSET \/ getenv[key] = "" THEN Halt(EmptyLine(key))
         ELSE load_env_no_repeat_check(getenv, ks, i + 1,
                [k \in DOMAIN acc \cup {key} |->
                    IF k = key THEN getenv[key] ELSE acc[k]])

\* lines 19-30: the for loop of load_env from its i-th key on, with the
\* mapping built so far; the result says whether sys.exit(1) was called, the
\* mapping returned and the line printed
RECURSIVE load_env_loop(_, _, _, _)
load_env_loop(getenv, ks, i, acc) ==
    IF i > Len(ks) THEN [exit |-> FALSE, env |-> acc, out |-> <<>>]
    ELSE LET key == ks[i] IN
         IF getenv[key] = UNSET \/ getenv[key] = "" THEN Halt(EmptyLine(key))
         ELSE IF key \in DOMAIN acc THEN Halt(RepeatedLine(key))
         ELSE IF key \notin DOMAIN acc
              THEN load_env_loop(getenv, ks, i + 1,
                     [k \in DOMAIN acc \cup {key} |->
                         IF k = key THEN getenv[key] ELSE acc[k]])
         ELSE Halt(UnexpectedLine)

load_env(getenv, ks) == load_env_loop(getenv, ks, 1, <<>>)

----------------------------------------------------------------------------
(* instantiate_stt, stt_recognize.py:34-39 *)

instantiate_stt(api_key, url_service) == [api_key |-> api_key, url |-> url_service]

----------------------------------------------------------------------------
(* extract_keywords, stt_recognize.py:42-46 *)

Cells == {"hola", "chao"}
Rows == [1..2 -> Cells]                        \* a row of two columns
NoSheet == [ok |-> FALSE, rows |-> <<>>]       \* a missing or unparsable file
Sheets == {[ok |-> TRUE, rows |-> r] : r \in SeqsUpTo(Rows, MaxRows)}

\* pd.read_excel(path, header=h), line 44: row number h (0-based) gives the
\* column labels and the rows after it are the data; a sheet without that
\* row, or a file that cannot be parsed, raises (for an empty sheet the
\* exception comes from iloc[:, 0] on line 45).
read_excel_raises(sh, h) == ~sh.ok \/ Len(sh.rows) <= h

\* faulty variant: header read as the number of rows to skip
read_excel_header_as_count(sh, h) ==
    [i \in 1..(Len(sh.rows) - h) |-> sh.rows[h + i]]

read_excel(sh, h) ==
    [i \in 1..(Len(sh.rows) - h - 1) |-> sh.rows[h + 1 + i]]

\* data_frame.iloc[:, 0].values.tolist(), line 45
extract_keywords(sh, h) ==
    LET data_frame == read_excel(sh, h)
    IN  [i \in 1..Len(data_frame) |-> data_frame[i][1]]

----------------------------------------------------------------------------
(* save_json, stt_recognize.py:56-62 *)

Dot == "."
Sep == "/"
JsonExt == <<".", "j", "s", "o", "n">>

\* str.rfind, 1-based; 0 when the character does not occur
rfind(p, c) ==
    LET hits == {i \in 1..Len(p) : p[i] = c}
    IN  IF hits = {} THEN 0 ELSE CHOOSE i \in hits : \A j \in hits : j <= i

\* faulty variant: the name is cut at its first dot
splitext_root_first_dot(p) ==
    LET hits == {i \in 1..Len(p) : p[i] = Dot}
        dotIndex == IF hits = {} THEN 0
                    ELSE CHOOSE i \in hits : \A j \in hits : i <= j
    IN  IF dotIndex > 0 THEN SubSeq(p, 1, dotIndex - 1) ELSE p

\* os.path.splitext(p)[0], line 58: the part before the last dot, unless that
\* dot is before the last separator or only dots precede it in the file name
splitext_root(p) ==
    LET sepIndex == rfind(p, Sep)
        dotIndex == rfind(p, Dot)
    IN  IF /\ dotIndex > sepIndex
           /\ \E filenameIndex \in (sepIndex + 1)..(dotIndex - 1) :
                 p[filenameIndex] # Dot
        THEN SubSeq(p, 1, dotIndex - 1)
        ELSE p

\* f'{transcripts_folder}/{name_file}.json'
json_pathfile(audio_file, transcripts_folder) ==
    transcripts_folder \o <<Sep>> \o splitext_root(audio_file) \o JsonExt

SavedLine(path) == [msg |-> "was saved sucessful", arg |-> path]

\* faulty variant: the other artifacts of the folder are lost
Write_replace_folder(folder, path, content) == [p \in {path} |-> content]

\* lines 60-61: the output folder after open(path, 'w') created or truncated
\* the file and content was written to it
Write(folder, path, content) ==
    [p \in DOMAIN folder \cup {path} |->
        IF p = path THEN content ELSE folder[p]]

----------------------------------------------------------------------------
(* main, stt_recognize.py:81-94, and the steps of the functions it calls *)

audios_folder == <<"a", "u", "d", "i", "o", "s">>
json_folder == <<"j", "s", "o", "n">>

Responses == {"r1", "r2"}
Truncated == {"<empty file>", "<partial json>"}

DirNames == {<<"a", ".", "x">>, <<"a", ".", "y">>, <<"b">>, <<".", "c">>}
Entries == [name : DirNames, isfile : BOOLEAN]
Listings ==
    {l \in SeqsUpTo(Entries, MaxFiles) :
        \A i, j \in DOMAIN l : i # j => l[i].name # l[j].name}

\* what os.environ may hold when main starts
PresetKeys == {"api_key"}
Presets ==
    {e \in [EnvKeys -> OsValues] :
        \A k \in EnvKeys \ PresetKeys : e[k] = UNSET}

\* what the spreadsheet of a run of main may hold
MainSheets == {sh \in Sheets : Len(sh.rows) <= MaxKeywords + 1}

audio_file == entries[idx].name
audio_pathfile == audios_folder \o <<Sep>> \o audio_file

InitCommon ==
    /\ environ = osenv
    /\ env = <<>>
    /\ status = -1
    /\ stdout = <<>>
    /\ client = NoClient
    /\ keywords = <<>>
    /\ inflight = {}
    /\ requests = <<>>
    /\ data_json = NoData
    /\ json = <<>>
    /\ writes = <<>>

Init ==
    /\ pc = "load_env"
    /\ osenv \in Presets
    /\ envfile \in [EnvKeys -> FileValues]
    /\ keys = MainKeys
    /\ sheet = NoSheet
    /\ header = 0
    /\ entries = <<>>
    /\ idx = 0
    /\ InitCommon

\* an uncaught exception: the traceback names where, exit status 1
Raised == {"raised: read_excel", "raised: listdir", "raised: open audio",
           "raised: recognize", "raised: open json", "raised: json.dump"}

Raise(where) ==
    /\ pc' = where
    /\ status' = 1

\* load_env returns its mapping to the caller, which goes on at next
LoadEnvReturn(next) ==
    /\ pc = "load_env"
    /\ environ' = load_dotenv(osenv, envfile)
    /\ ~load_env(environ', keys).exit
    /\ env' = load_env(environ', keys).env
    /\ pc' = next
    /\ UNCHANGED <<osenv, envfile, keys, status, stdout, client, keywords,
                   sheet, header, entries, idx, inflight, requests, data_json,
                   json, writes>>

\* load_env prints its diagnostic and calls sys.exit(1)
LoadEnvExit ==
    /\ pc = "load_env"
    /\ environ' = load_dotenv(osenv, envfile)
    /\ load_env(environ', keys).exit
    /\ stdout' = stdout \o load_env(environ', keys).out
    /\ status' = 1
    /\ pc' = "exit"
    /\ UNCHANGED <<osenv, envfile, keys, env, client, keywords, sheet, header,
                   entries, idx, inflight, requests, data_json, json, writes>>

\* line 85
MainLoadEnv == LoadEnvReturn("instantiate_stt")

\* line 86
InstantiateStt ==
    /\ pc = "instantiate_stt"
    /\ client' = instantiate_stt(env["api_key"], env["api_url"])
    /\ pc' = "extract_keywords"
    /\ UNCHANGED <<osenv, envfile, environ, keys, env, status, stdout,
                   keywords, sheet, header, entries, idx, inflight, requests,
                   data_json, json, writes>>

\* extract_keywords(sh, h) returns its list to the caller
ExtractKeywordsReturn(sh, h, next) ==
    /\ pc = "extract_keywords"
    /\ ~read_excel_raises(sh, h)
    /\ keywords' = extract_keywords(sh, h)
    /\ pc' = next
    /\ UNCHANGED <<osenv, envfile, environ, keys, env, status, stdout, client,
                   sheet, header, entries, idx, inflight, requests, data_json,
                   json, writes>>

\* pd.read_excel raises inside extract_keywords
ExtractKeywordsRaise(sh, h) ==
    /\ pc = "extract_keywords"
    /\ read_excel_raises(sh, h)
    /\ Raise("raised: read_excel")
    /\ UNCHANGED <<osenv, envfile, environ, keys, env, stdout, client,
                   keywords, sheet, header, entries, idx, inflight, requests,
                   data_json, json, writes>>

\* line 89, whatever the spreadsheet file holds
MainExtractKeywords ==
    \E sh \in MainSheets : ExtractKeywordsReturn(sh, 0, "listdir")

MainExtractKeywordsRaise ==
    \E sh \in MainSheets \cup {NoSheet} : ExtractKeywordsRaise(sh, 0)

\* line 90, os.listdir(audios_folder)
ListDir ==
    /\ pc = "listdir"
    /\ entries' \in Listings
    /\ idx' = 1
    /\ pc' = "for"
    /\ UNCHANGED <<osenv, envfile, environ, keys, env, status, stdout, client,
                   keywords, sheet, header, inflight, requests, data_json,
                   json, writes>>

\* line 90, os.listdir raises (no input folder)
ListDirRaise ==
    /\ pc = "listdir"
    /\ Raise("raised: listdir")
    /\ UNCHANGED <<osenv, envfile, environ, keys, env, stdout, client,
                   keywords, sheet, header, entries, idx, inflight, requests,
                   data_json, json, writes>>

\* line 90, the listing is exhausted: main returns
ForEnd ==
    /\ pc = "for"
    /\ idx > Len(entries)
    /\ pc' = "done"
    /\ status' = 0
    /\ UNCHANGED <<osenv, envfile, environ, keys, env, stdout, client,
                   keywords, sheet, header, entries, idx, inflight, requests,
                   data_json, json, writes>>

\* faulty variant: the loop does not move on
SkipEntry_stay ==
    /\ pc = "for"
    /\ idx <= Len(entries)
    /\ ~entries[idx].isfile
    /\ UNCHANGED vars

\* line 92, os.path.isfile is false: on to the next entry
SkipEntry ==
    /\ pc = "for"
    /\ idx <= Len(entries)
    /\ ~entries[idx].isfile
    /\ idx' = idx + 1
    /\ UNCHANGED <<pc, osenv, envfile, environ, keys, env, status, stdout,
                   client, keywords, sheet, header, entries, inflight,
                   requests, data_json, json, writes>>

\* line 67, open(audio_pathfile, 'rb') raises
OpenAudioRaise ==
    /\ pc = "for"
    /\ idx <= Len(entries)
    /\ entries[idx].isfile
    /\ Raise("raised: open audio")
    /\ UNCHANGED <<osenv, envfile, environ, keys, env, stdout, client,
                   keywords, sheet, header, entries, idx, inflight, requests,
                   data_json, json, writes>>

\* the arguments of speech_to_text.recognize, lines 68-77
Request(path, stt, kws, custom_id) ==
    [audio |-> path, client |-> stt, keywords |-> kws,
     customization_id |-> custom_id, content_type |-> "audio/mp3",
     model |-> "es-CO_NarrowbandModel", speaker_labels |-> TRUE,
     inactivity_timeout |-> -1, max_alternatives |-> 3]

\* faulty variant: no os.path.isfile test
sst_response_any_entry ==
    /\ pc = "for"
    /\ idx <= Len(entries)
    /\ requests' = Append(requests,
          Request(audio_pathfile, client, keywords, env["custom_id"]))
    /\ inflight' = inflight \cup {Len(requests) + 1}
    /\ pc' = "recognize"
    /\ UNCHANGED <<osenv, envfile, environ, keys, env, status, stdout, client,
                   keywords, sheet, header, entries, idx, data_json, json,
                   writes>>

\* faulty variant: the keyword list is not passed on
sst_response_no_keywords ==
    /\ pc = "for"
    /\ idx <= Len(entries)
    /\ entries[idx].isfile
    /\ requests' = Append(requests,
          Request(audio_pathfile, client, <<>>, env["custom_id"]))
    /\ inflight' = inflight \cup {Len(requests) + 1}
    /\ pc' = "recognize"
    /\ UNCHANGED <<osenv, envfile, environ, keys, env, status, stdout, client,
                   keywords, sheet, header, entries, idx, data_json, json,
                   writes>>

\* lines 92-93, 67-77: the entry is a regular file, it is opened and the
\* recognition request is submitted
sst_response ==
    /\ pc = "for"
    /\ idx <= Len(entries)
    /\ entries[idx].isfile
    /\ requests' = Append(requests,
          Request(audio_pathfile, client, keywords, env["custom_id"]))
    /\ inflight' = inflight \cup {Len(requests) + 1}
    /\ pc' = "recognize"
    /\ UNCHANGED <<osenv, envfile, environ, keys, env, status, stdout, client,
                   keywords, sheet, header, entries, idx, data_json, json,
                   writes>>

\* line 77, the service answers and get_result() hands the document back
RecognizeReturn ==
    /\ pc = "recognize"
    /\ data_json' \in Responses
    /\ inflight' = {}
    /\ pc' = "save_json"
    /\ UNCHANGED <<osenv, envfile, environ, keys, env, status, stdout, client,
                   keywords, sheet, header, entries, idx, requests, json,
                   writes>>

\* faulty variant: the error is swallowed and the loop goes on
RecognizeRaise_continue ==
    /\ pc = "recognize"
    /\ inflight' = {}
    /\ idx' = idx + 1
    /\ pc' = "for"
    /\ UNCHANGED <<osenv, envfile, environ, keys, env, status, stdout, client,
                   keywords, sheet, header, entries, requests, data_json,
                   json, writes>>

\* line 68, recognize raises (transport or service error); nothing catches it
RecognizeRaise ==
    /\ pc = "recognize"
    /\ inflight' = {}
    /\ Raise("raised: recognize")
    /\ UNCHANGED <<osenv, envfile, environ, keys, env, stdout, client,
                   keywords, sheet, header, entries, idx, requests, data_json,
                   json, writes>>

\* save_json(data_json, audio_file, transcripts_folder), lines 58-62: the
\* artifact is written and the confirmation printed; the caller goes on at next
save_json(transcripts_folder, next) ==
    /\ pc = "save_json"
    /\ LET path == json_pathfile(audio_file, transcripts_folder)
       IN  /\ json' = Write(json, path, data_json)
           /\ writes' = Append(writes,
                 [audio_file |-> audio_file, folder |-> transcripts_folder,
                  path |-> path, data |-> data_json])
           /\ stdout' = Append(stdout, SavedLine(path))
    /\ idx' = idx + 1
    /\ pc' = next
    /\ UNCHANGED <<osenv, envfile, environ, keys, env, status, client,
                   keywords, sheet, header, entries, inflight, requests,
                   data_json>>

\* line 94, and the for loop takes the next entry
MainSaveJson == save_json(json_folder, "for")

\* line 60, open(json_pathfile, 'w') raises: nothing is touched
SaveJsonOpenRaise ==
    /\ pc = "save_json"
    /\ Raise("raised: open json")
    /\ UNCHANGED <<osenv, envfile, environ, keys, env, stdout, client,
                   keywords, sheet, header, entries, idx, inflight, requests,
                   data_json, json, writes>>

\* line 61, json.dump raises after open(json_pathfile, 'w') truncated the file
SaveJsonDumpRaise ==
    /\ pc = "save_json"
    /\ \E c \in Truncated :
          json' = Write(json, json_pathfile(audio_file, json_folder), c)
    /\ Raise("raised: json.dump")
    /\ UNCHANGED <<osenv, envfile, environ, keys, env, stdout, client,
                   keywords, sheet, header, entries, idx, inflight, requests,
                   data_json, writes>>

Next ==
    \/ MainLoadEnv
    \/ LoadEnvExit
    \/ InstantiateStt
    \/ MainExtractKeywords
    \/ MainExtractKeywordsRaise
    \/ ListDir
    \/ ListDirRaise
    \/ ForEnd
    \/ SkipEntry
    \/ OpenAudioRaise
    \/ sst_response
    \/ RecognizeReturn
    \/ RecognizeRaise
    \/ MainSaveJson
    \/ SaveJsonOpenRaise
    \/ SaveJsonDumpRaise

Spec == Init /\ [][Next]_vars

\* the process is the only thread and keeps running; a remote call that is
\* awaited comes back (with a result or an error)
LiveInit == Init /\ osenv = [k \in EnvKeys |-> UNSET]
LiveSpec == LiveInit /\ [][Next]_vars /\ WF_vars(Next)

----------------------------------------------------------------------------
(* load_env called on any required-key sequence *)

KeySeqs == SeqsUpTo(TestKeys, MaxKeys)

InitLoadEnv ==
    /\ pc = "load_env"
    /\ keys \in KeySeqs
    /\ osenv \in {e \in [EnvKeys -> OsValues] :
                    \A k \in EnvKeys \ TestKeys : e[k] = UNSET}
    /\ envfile \in {f \in [EnvKeys -> FileValues] : f["custom_id"] = UNSET}
    /\ sheet = NoSheet
    /\ header = 0
    /\ entries = <<>>
    /\ idx = 0
    /\ InitCommon

CallLoadEnv == LoadEnvReturn("returned")

NextLoadEnv == CallLoadEnv \/ LoadEnvExit

LoadEnvSpec == InitLoadEnv /\ [][NextLoadEnv]_vars

----------------------------------------------------------------------------
(* extract_keywords called on any spreadsheet and header argument *)

InitKeywords ==
    /\ pc = "extract_keywords"
    /\ sheet \in Sheets \cup {NoSheet}
    /\ header \in 0..MaxHeader
    /\ osenv = [k \in EnvKeys |-> UNSET]
    /\ envfile = [k \in EnvKeys |-> UNSET]
    /\ keys = <<>>
    /\ entries = <<>>
    /\ idx = 0
    /\ InitCommon

CallExtractKeywords == ExtractKeywordsReturn(sheet, header, "returned")

CallExtractKeywordsRaise == ExtractKeywordsRaise(sheet, header)

NextKeywords == CallExtractKeywords \/ CallExtractKeywordsRaise

KeywordsSpec == InitKeywords /\ [][NextKeywords]_vars

----------------------------------------------------------------------------
(* save_json called on any file name *)

NameChars == {"a", "b", "."}
clip_01_mp3 == <<"c", "l", "i", "p", "_", "0", "1", ".", "m", "p", "3">>
clip == <<"c", "l", "i", "p">>
FileNames ==
    {n \in SeqsUpTo(NameChars, MaxNameLen) :
        n # <<>> /\ n # <<".">> /\ n # <<".", ".">>}
    \cup {clip_01_mp3, clip}
Folders == {json_folder, <<"o", "u", "t">>}

InitSaveJson ==
    /\ pc = "save_json"
    /\ \E n \in FileNames : entries = <<[name |-> n, isfile |-> TRUE]>>
    /\ idx = 1
    /\ osenv = [k \in EnvKeys |-> UNSET]
    /\ envfile = [k \in EnvKeys |-> UNSET]
    /\ keys = <<>>
    /\ sheet = NoSheet
    /\ header = 0
    /\ environ = osenv
    /\ env = <<>>
    /\ status = -1
    /\ stdout = <<>>
    /\ client = NoClient
    /\ keywords = <<>>
    /\ inflight = {}
    /\ requests = <<>>
    /\ data_json \in Responses
    /\ json = <<>>
    /\ writes = <<>>

CallSaveJson == \E f \in Folders : save_json(f, "returned")

NextSaveJson == CallSaveJson \/ SaveJsonOpenRaise

SaveJsonSpec == InitSaveJson /\ [][NextSaveJson]_vars

----------------------------------------------------------------------------
(* Properties of load_env *)

IsEmpty(v) == v = UNSET \/ v = ""

\* the value os.getenv(key) gives once the file is loaded: the value the
\* process environment already had for the key, else the value of the file
Effective(k) == IF osenv[k] # UNSET THEN osenv[k] ELSE envfile[k]

Min(S) == CHOOSE i \in S : \A j \in S : i <= j

HasRepeat == \E i, j \in DOMAIN keys : i < j /\ keys[i] = keys[j]
Distinct == ~HasRepeat

\* positions of keys without a value, and positions repeating an earlier key
EmptyAt == {i \in DOMAIN keys : IsEmpty(Effective(keys[i]))}
RepeatAt == {j \in DOMAIN keys : \E i \in 1..(j - 1) : keys[i] = keys[j]}

NoClientBuilt == client = NoClient /\ requests = <<>> /\ inflight = {}

C2_RepeatGivesRepeatedKey ==
    (pc # "load_env" /\ HasRepeat)
        => /\ pc = "exit"
           /\ status = 1
           /\ env = <<>>
           /\ \E k \in Range(keys) : stdout = <<RepeatedLine(k)>>

\* C2 amended: a required-key sequence with a repeated name halts with exit
\* status 1 and returns no mapping; the diagnostic is 'Repeated key', naming
\* the first repeated key, when every key up to that repetition has a value,
\* and otherwise the 'value is empty' diagnostic of the first key without one.
C2_RepeatHalts ==
    (pc # "load_env" /\ HasRepeat)
        => /\ pc = "exit"
           /\ status = 1
           /\ env = <<>>
           /\ LET j == Min(RepeatAt)
              IN  IF \A i \in 1..j : ~IsEmpty(Effective(keys[i]))
                  THEN stdout = <<RepeatedLine(keys[j])>>
                  ELSE stdout = <<EmptyLine(keys[Min(EmptyAt)])>>

C2_Witness ==
    /\ pc = "exit"
    /\ Len(keys) = 3
    /\ keys[2] = keys[3]
    /\ keys[1] # keys[2]
    /\ stdout = <<RepeatedLine(keys[3])>>

\* C3 as stated: when every required key is present and non-empty in the
\* file and the keys are distinct, load_env returns exactly the required keys
\* with exactly the strings of the file.
C3_ReturnsFileValues ==
    (pc # "load_env" /\ Distinct
        /\ \A k \in Range(keys) : ~IsEmpty(envfile[k]))
        => /\ pc = "returned"
           /\ DOMAIN env = Range(keys)
           /\ \A k \in Range(keys) : env[k] = envfile[k]

\* C3 amended: when every required key has a value once the file is loaded
\* and the keys are distinct, load_env returns a mapping whose key set is
\* exactly the required keys; the value of a key is the string the process
\* environment already had for it, else the string of the file; keys of the
\* file that are not required do not appear.
C3_ReturnsEffectiveValues ==
    (pc # "load_env" /\ Distinct
        /\ \A k \in Range(keys) : ~IsEmpty(Effective(k)))
        => /\ pc = "returned"
           /\ status = -1
           /\ stdout = <<>>
           /\ DOMAIN env = Range(keys)
           /\ \A k \in Range(keys) : env[k] = Effective(k)
           /\ \A k \in Range(keys) : osenv[k] = UNSET => env[k] = envfile[k]

C3_Witness ==
    /\ pc = "returned"
    /\ Len(keys) = 2
    /\ \A k \in Range(keys) : osenv[k] = UNSET /\ env[k] = "f"
    /\ envfile["base_lang"] = "f"
    /\ "base_lang" \notin DOMAIN env

----------------------------------------------------------------------------
(* Properties of the batch loop of main *)

IsFile(e) == e.isfile
Regular == SelectSeq(entries, IsFile)            \* the regular files, in order
Stems == {splitext_root(Regular[i].name) : i \in DOMAIN Regular}

AudioPath(name) == audios_folder \o <<Sep>> \o name

\* the writes made to a path, and the data of the last of them
WritesTo(p) == {i \in DOMAIN writes : writes[i].path = p}
Max(S) == CHOOSE i \in S : \A j \in S : j <= i
LastWritten(p) == writes[Max(WritesTo(p))].data

\* every request and every write so far is for the regular files, in order
RequestsInOrder ==
    /\ Len(requests) <= Len(Regular)
    /\ \A i \in DOMAIN requests : requests[i].audio = AudioPath(Regular[i].name)

WritesInOrder ==
    /\ Len(writes) <= Len(Regular)
    /\ \A i \in DOMAIN writes :
          /\ writes[i].audio_file = Regular[i].name
          /\ writes[i].folder = json_folder

\* C4 as stated: after a run in which every call and write succeeded, the
\* output folder holds as many artifacts as the input folder has regular
\* files, and nothing is requested or written for a sub-directory.
C4_OneArtifactPerFile ==
    pc = "done"
        => /\ Cardinality(DOMAIN json) = Len(Regular)
           /\ Len(writes) = Len(Regular)
           /\ Len(requests) = Len(Regular)
           /\ RequestsInOrder
           /\ WritesInOrder

\* C4 amended: after a run in which every call and write succeeded, one
\* artifact was written per regular file, in listing order, and the output
\* folder holds one artifact per distinct derived path: regular files whose
\* names differ only in the last extension share one artifact, which holds
\* the result of the last of them; nothing is requested or written for a
\* sub-directory.
C4_OneWritePerFile ==
    pc = "done"
        => /\ Len(writes) = Len(Regular)
           /\ Len(requests) = Len(Regular)
           /\ RequestsInOrder
           /\ WritesInOrder
           /\ DOMAIN json = {writes[i].path : i \in DOMAIN writes}
           /\ Cardinality(DOMAIN json) = Cardinality(Stems)
           /\ \A p \in DOMAIN json : json[p] = LastWritten(p)

C4_Witness ==
    /\ pc = "done"
    /\ Len(entries) = 3
    /\ Len(writes) = 2
    /\ writes[1].data # writes[2].data
    /\ Cardinality(DOMAIN json) = 1
    /\ ~entries[2].isfile

\* C5: a recognition call that does not hand back a result raises and ends
\* the run on the spot: no artifact is written for that file, and no request
\* is submitted and no artifact written for any file after it in the listing.
C5_RaiseEndsTheRun ==
    /\ [][(pc = "recognize" /\ pc' # "save_json")
            => /\ pc' = "raised: recognize"
               /\ status' = 1
               /\ writes' = writes
               /\ json' = json
               /\ requests' = requests
               /\ stdout' = stdout]_vars
    /\ [](pc = "raised: recognize"
            => /\ ~ENABLED Next
               /\ RequestsInOrder
               /\ WritesInOrder
               /\ Len(writes) = Len(requests) - 1
               /\ \A i \in DOMAIN writes : writes[i].audio_file # audio_file
               /\ \A j \in (idx + 1)..Len(entries) :
                     /\ \A i \in DOMAIN requests :
                           requests[i].audio # AudioPath(entries[j].name)
                     /\ \A i \in DOMAIN writes :
                           writes[i].audio_file # entries[j].name)

C5_Witness ==
    /\ pc = "raised: recognize"
    /\ Len(entries) = 3
    /\ \A i \in DOMAIN entries : entries[i].isfile
    /\ idx = 2
    /\ Len(writes) = 1

LoopRaised == {"raised: open audio", "raised: recognize",
               "raised: open json", "raised: json.dump"}

\* C8 as stated: when a failure at some file ends the run, every artifact
\* saved for an earlier file is still present with the content written for it.
C8_EarlierArtifactsAsWritten ==
    pc \in LoopRaised
        => \A i \in DOMAIN writes :
              /\ writes[i].path \in DOMAIN json
              /\ json[writes[i].path] = writes[i].data

\* C8 amended: when a failure at some file ends the run, every path written
\* earlier is still present and holds the content of the last write made to
\* it, except the failing file's own path when writing it failed part-way;
\* an earlier file's artifact is thus intact unless a later file with the
\* same derived path was written or was being written.
C8_EarlierArtifactsKept ==
    pc \in LoopRaised
        => \A i \in DOMAIN writes :
              LET p == writes[i].path
              IN  /\ p \in DOMAIN json
                  /\ \/ json[p] = LastWritten(p)
                     \/ /\ pc = "raised: json.dump"
                        /\ p = json_pathfile(audio_file, json_folder)
                        /\ json[p] \in Truncated

C8_Witness ==
    /\ pc = "raised: json.dump"
    /\ Len(writes) = 2
    /\ writes[1].path # writes[2].path
    /\ json_pathfile(audio_file, json_folder) \notin {writes[1].path, writes[2].path}

\* C9: at most one recognition request is in flight; the request of a file
\* is submitted only after the result of every earlier file was written and
\* its confirmation printed; every request carries the client handle and the
\* keyword list built at startup.
C9_OneAtATime ==
    /\ Cardinality(inflight) <= 1
    /\ inflight # {} <=> pc = "recognize"
    /\ inflight # {} => inflight = {Len(requests)}
    /\ Len(requests) \in {Len(writes), Len(writes) + 1}
    /\ Len(requests) = Len(writes) + 1
          <=> pc \in {"recognize", "save_json", "raised: recognize",
                      "raised: open json", "raised: json.dump"}
    /\ \A i \in DOMAIN writes :
          /\ requests[i].audio = AudioPath(writes[i].audio_file)
          /\ stdout[i] = SavedLine(writes[i].path)
    /\ Len(stdout) = Len(writes) \/ pc = "exit"
    /\ \A i \in DOMAIN requests :
          /\ requests[i].client = client
          /\ requests[i].client =
                [api_key |-> Effective("api_key"), url |-> Effective("api_url")]
          /\ requests[i].keywords = keywords
          /\ requests[i].customization_id = Effective("custom_id")
          /\ requests[i] = [requests[1] EXCEPT !.audio = requests[i].audio]

C9_Witness ==
    /\ pc = "recognize"
    /\ Len(requests) = 3
    /\ Len(writes) = 2
    /\ keywords # <<>>
    /\ osenv["api_key"] = "p"

\* C10: a run in which no step fails ends normally, with exactly one request
\* made for each regular file of the listing, in listing order; while a
\* recognition call is awaited nothing else happens, so the loop advances
\* only when the call comes back.
DoneOK ==
    /\ pc = "done"
    /\ status = 0
    /\ Len(requests) = Len(Regular)
    /\ RequestsInOrder
    /\ idx = Len(entries) + 1

Failed == pc \in Raised \cup {"exit"}

C10_Terminates ==
    /\ <>(DoneOK \/ Failed)
    /\ [](pc = "done" => DoneOK)
    /\ [][pc = "recognize"
            => /\ idx' = idx
               /\ requests' = requests
               /\ pc' \in {"save_json", "raised: recognize"}]_vars

C10_Witness ==
    /\ DoneOK
    /\ Len(entries) = 3
    /\ Len(requests) = 2
    /\ ~entries[1].isfile

----------------------------------------------------------------------------
(* Properties of save_json *)

json_clip_01_json ==
    <<"j", "s", "o", "n", "/", "c", "l", "i", "p", "_", "0", "1",
      ".", "j", "s", "o", "n">>
json_clip_json == <<"j", "s", "o", "n", "/", "c", "l", "i", "p", ".", "j", "s", "o", "n">>

\* a dot of the name that some other character precedes
HasExtension(n) ==
    \E i, j \in DOMAIN n : i < j /\ n[i] # Dot /\ n[j] = Dot

\* C6: save_json writes '<folder>/<name without its last extension>.json':
\* 'clip_01.mp3' gives 'json/clip_01.json', 'clip' gives 'json/clip.json',
\* and for every name the part dropped is the last dot and what follows it
\* (nothing for a name without a dot after its first character other than a
\* dot).
C6_ArtifactPath ==
    pc = "returned"
        => LET n == entries[1].name
               w == writes[1]
           IN  /\ Len(writes) = 1
               /\ (n = clip_01_mp3 /\ w.folder = json_folder)
                     => w.path = json_clip_01_json
               /\ (n = clip /\ w.folder = json_folder)
                     => w.path = json_clip_json
               /\ \E k \in 0..Len(n) :
                     LET stem == SubSeq(n, 1, k)
                         ext == SubSeq(n, k + 1, Len(n))
                     IN  /\ w.path = w.folder \o <<Sep>> \o stem \o JsonExt
                         /\ ext # <<>> =>
                               /\ ext[1] = Dot
                               /\ \A i \in 2..Len(ext) : ext[i] # Dot
                         /\ ext = <<>> <=> ~HasExtension(n)
               /\ DOMAIN json = {w.path}
               /\ json[w.path] = data_json
               /\ stdout = <<SavedLine(w.path)>>

C6_Witness ==
    /\ pc = "returned"
    /\ entries[1].name = clip_01_mp3
    /\ DOMAIN json = {json_clip_01_json}

----------------------------------------------------------------------------
(* Properties of extract_keywords *)

====
